---- MODULE Spec2Model ----
(***************************************************************************)
(* satellite_populate.api.APIPopulator: populate / validate and the three  *)
(* CRUD handlers, run against a remote entity store.                       *)
(*                                                                         *)
(* The remote system (nailgun entities over HTTP) is a set of entities     *)
(* with server-allocated ids.  One step of the model is one whole call of  *)
(* populate() or validate().  Besides the populator's own fields the state *)
(* keeps a record of the last call (its arguments, the state it started    *)
(* from, the network operations it issued and how it ended), so that the   *)
(* effect of a call can be stated as a predicate on the state after it.    *)
(***************************************************************************)
EXTENDS Integers, Sequences, FiniteSets

(* ----------------------------- bounds --------------------------------- *)
\* ids the remote system can hand out (creation is cut off beyond it)
MaxId == 3
\* entities that exist on the remote system before the run
MaxInit == 2
\* calls of populate/validate in one run
MaxCalls == 2

(* ----------------------------- values --------------------------------- *)
\* Python None as an entity id / handle; `not entity_id` is true of None and 0
None == 0
\* absent or empty search_query (`not search_data` is true of None and "")
NoQuery == ""
\* value of an entity field that was never set
NoVal == "-"
Names == {"a", "b"}
Labels == {"x"}
Ids == 1..MaxId

\* entity classes: with EntitySearchMixin, without it, and a name that
\* nailgun.entities does not define
SearchableModel == "Organization"
PlainModel == "Plain"
UnknownModel == "Missing"
KnownModels == {SearchableModel, PlainModel}

UnknownVerb == "bogus"

\* rendered action data: field name -> concrete value, for a subset of fields
Rendered ==
    {[name |-> n] : n \in Names}
        \cup {[name |-> n, label |-> l] : n \in Names, l \in Labels}

\* search predicates: field name -> required value
Searches == {[name |-> n] : n \in Names}

\* action data of one declared action
ActionData(model, id, sq, silent, skip, key) ==
    [model |-> model, id |-> id, search_query |-> sq,
     silent_errors |-> silent, skip_validation |-> skip, register |-> key]

\* the network operation of a call that fails with an HTTP error, if any
FailPoints == {"none", "search", "act"}

VARIABLES
    remote,             \* entities on the remote system: [id, name, label]
    nextId,             \* next id the remote system allocates
    registry,           \* self.registry: key -> handle (an id) or None
    created,            \* self.created: handles, in order
    found,              \* self.found: handles, in order
    validation_errors,  \* self.validation_errors: ErrorRecords, in order
    ncalls,             \* calls made so far in this run
    call,               \* the last call: method and arguments
    pre,                \* populator and remote state when the last call began
    netops,             \* network operations the last call issued, in order
    thrown,             \* exception the last call's handler/search raised
    thrownText,         \* str() of that exception, word by word
    before,             \* ids of the entities that existed before the run
    propagated,         \* TRUE iff the last call raised to its caller
    returned            \* value the last call's verb handler returned

vars == <<remote, nextId, registry, created, found, validation_errors,
          ncalls, call, pre, netops, thrown, thrownText, before,
          propagated, returned>>

(* ------------------------- remote system ------------------------------ *)
Fields == {"name", "label"}
FieldOf(e, f) == IF f = "name" THEN e.name ELSE e.label

\* an entity satisfies a predicate iff it agrees on every field named
Matches(e, s) == \A f \in DOMAIN s : FieldOf(e, f) = s[f]

SearchRemote(rem, s) == {e \in rem : Matches(e, s)}

\* model(**fields).create(): the server stores the fields given
NewEntity(id, rad) ==
    [id |-> id,
     name |-> IF "name" \in DOMAIN rad THEN rad["name"] ELSE NoVal,
     label |-> IF "label" \in DOMAIN rad THEN rad["label"] ELSE NoVal]

\* variant: a full update, fields not named are reset
UpdatedEntity_full(e, rad, fields) ==
    [id |-> e.id,
     name |-> IF "name" \in fields THEN rad["name"] ELSE NoVal,
     label |-> IF "label" \in fields THEN rad["label"] ELSE NoVal]

\* entity.update(fields): the server overwrites only the fields named
UpdatedEntity(e, rad, fields) ==
    [id |-> e.id,
     name |-> IF "name" \in fields THEN rad["name"] ELSE e.name,
     label |-> IF "label" \in fields THEN rad["label"] ELSE e.label]

RemoteIds(rem) == {e.id : e \in rem}
EntityById(rem, id) == CHOOSE e \in rem : e.id = id

Op(kind, id, ok) == [op |-> kind, id |-> id, ok |-> ok]

(* --------------------- outcomes of a handler -------------------------- *)
\* st: the part of the state a handler can change
State(rem, nid, cr, fo) == [remote |-> rem, nextId |-> nid, created |-> cr, found |-> fo]

Return(st, result, ops) ==
    [exc |-> "", text |-> <<>>, resp |-> FALSE, result |-> result,
     st |-> st, netops |-> ops, over |-> FALSE]

Raise(exc, text, resp, st, ops) ==
    [exc |-> exc, text |-> text, resp |-> resp, result |-> None,
     st |-> st, netops |-> ops, over |-> FALSE]

\* the remote system is out of ids: outside the bounds of the model
OutOfIds(st) ==
    [exc |-> "", text |-> <<>>, resp |-> FALSE, result |-> None,
     st |-> st, netops |-> <<>>, over |-> TRUE]

HTTPText == <<"HTTPError">>

(* --------------------------- handlers --------------------------------- *)
\* variant: several matches are reduced to one of them
get_search_result_first(model, s, silent, env, st) ==
    IF model # SearchableModel
    THEN Raise("AttributeError", <<"no", "attribute", "search">>,
               FALSE, st, <<>>)
    ELSE IF env = "search"
    THEN Raise("HTTPError", HTTPText, TRUE, st, <<Op("search", None, FALSE)>>)
    ELSE LET hits == SearchRemote(st.remote, s)
             ops == <<Op("search", None, TRUE)>>
         IN  IF hits = {} THEN Return(st, None, ops)
             ELSE Return(st, (CHOOSE e \in hits : TRUE).id, ops)

\* BasePopulator.get_search_result(model, search, unique=True,
\* silent_errors=...): absence for no match, the handle for one match, an
\* error for several; a model without a search method cannot be searched
get_search_result(model, s, silent, env, st) ==
    IF model # SearchableModel
    THEN Raise("AttributeError", <<"no", "attribute", "search">>,
               FALSE, st, <<>>)
    ELSE IF env = "search"
    THEN Raise("HTTPError", HTTPText, TRUE, st, <<Op("search", None, FALSE)>>)
    ELSE LET hits == SearchRemote(st.remote, s)
             ops == <<Op("search", None, TRUE)>>
         IN  IF hits = {} THEN Return(st, None, ops)
             ELSE IF Cardinality(hits) > 1
             THEN Raise("RuntimeError", <<"search", "is", "not", "unique">>,
                        FALSE, st, ops)
             ELSE Return(st, (CHOOSE e \in hits : TRUE).id, ops)

\* variant: the search result is ignored and the entity always created
CreateNeeded_always(result) == TRUE

\* `if result:` fails: nothing matched, the entity is to be created
CreateNeeded(result) == result = None

\* variant: the two lists are swapped
action_create_swapped(rad, ad, s, silent, env, st) ==
    LET r == get_search_result(ad.model, s, silent, env, st)
    IN  IF r.exc # "" THEN r
        ELSE IF ~CreateNeeded(r.result)
        THEN Return([st EXCEPT !.created = Append(@, r.result)],
                    r.result, r.netops)
        ELSE IF env = "act"
        THEN Raise("HTTPError", HTTPText, TRUE, st,
                   Append(r.netops, Op("create", None, FALSE)))
        ELSE IF st.nextId > MaxId THEN OutOfIds(st)
        ELSE Return([st EXCEPT !.remote = @ \cup {NewEntity(st.nextId, rad)},
                               !.nextId = @ + 1,
                               !.found = Append(@, st.nextId)],
                    st.nextId,
                    Append(r.netops, Op("create", st.nextId, TRUE)))

action_create(rad, ad, s, silent, env, st) ==
    LET r == get_search_result(ad.model, s, silent, env, st)
    IN  IF r.exc # "" THEN r
        ELSE IF ~CreateNeeded(r.result)
        THEN Return([st EXCEPT !.found = Append(@, r.result)],
                    r.result, r.netops)
        ELSE IF env = "act"
        THEN Raise("HTTPError", HTTPText, TRUE, st,
                   Append(r.netops, Op("create", None, FALSE)))
        ELSE IF st.nextId > MaxId THEN OutOfIds(st)
        ELSE Return([st EXCEPT !.remote = @ \cup {NewEntity(st.nextId, rad)},
                               !.nextId = @ + 1,
                               !.created = Append(@, st.nextId)],
                    st.nextId,
                    Append(r.netops, Op("create", st.nextId, TRUE)))

\* model(id=entity_id, **rendered).update(list(rendered.keys()))
UpdateCall(rad, id, env, st, ops) ==
    IF env = "act" \/ id \notin RemoteIds(st.remote)
    THEN Raise("HTTPError", HTTPText, TRUE, st,
               Append(ops, Op("update", id, FALSE)))
    ELSE LET e == EntityById(st.remote, id)
         IN  Return([st EXCEPT !.remote =
                        (@ \ {e}) \cup {UpdatedEntity(e, rad, DOMAIN rad)}],
                    id, Append(ops, Op("update", id, TRUE)))

\* variant: the check for a missing target is left out
MissingTarget_never(ad) == FALSE

\* `if not entity_id and not search_data`
MissingTarget(ad) == ad.id = None /\ ad.search_query = NoQuery

action_update(rad, ad, s, silent, env, st) ==
    IF MissingTarget(ad)
    THEN Raise("RuntimeError",
               <<"update:", "missing", "id", "or", "search_query">>,
               FALSE, st, <<>>)
    ELSE IF ad.id = None
    THEN LET r == get_search_result(ad.model, s, silent, env, st)
         IN  IF r.exc # "" THEN r
             ELSE IF r.result = None
             THEN Raise("RuntimeError",
                        <<"update:", "Cannot", "find", "entity">>,
                        FALSE, st, r.netops)
             ELSE UpdateCall(rad, r.result, env, st, r.netops)
    ELSE UpdateCall(rad, ad.id, env, st, <<>>)

\* variant: every entity is deleted, not the one with the id
DeleteCall_all(id, env, st, ops) ==
    IF env = "act" \/ id \notin RemoteIds(st.remote)
    THEN Raise("HTTPError", HTTPText, TRUE, st,
               Append(ops, Op("delete", id, FALSE)))
    ELSE Return([st EXCEPT !.remote = {}],
                None, Append(ops, Op("delete", id, TRUE)))

\* model(id=entity_id).delete()
DeleteCall(id, env, st, ops) ==
    IF env = "act" \/ id \notin RemoteIds(st.remote)
    THEN Raise("HTTPError", HTTPText, TRUE, st,
               Append(ops, Op("delete", id, FALSE)))
    ELSE Return([st EXCEPT !.remote = @ \ {EntityById(@, id)}],
                None, Append(ops, Op("delete", id, TRUE)))

action_delete(rad, ad, s, silent, env, st) ==
    IF MissingTarget(ad)
    THEN Raise("RuntimeError",
               <<"delete:", "missing", "id", "or", "search_query">>,
               FALSE, st, <<>>)
    ELSE IF ad.id = None
    THEN LET r == get_search_result(ad.model, s, silent, env, st)
         IN  IF r.exc # "" THEN r
             ELSE IF r.result = None
             THEN Raise("RuntimeError",
                        <<"delete:", "Cannot", "find", "entity">>,
                        FALSE, st, r.netops)
             ELSE DeleteCall(r.result, env, st, r.netops)
    ELSE DeleteCall(ad.id, env, st, <<>>)

\* getattr(self, "action_{0}".format(action))(...): a verb without a
\* handler method raises AttributeError inside populate's try block
Dispatch(verb, rad, ad, s, silent, env, st) ==
    CASE verb = "create" -> action_create(rad, ad, s, silent, env, st)
      [] verb = "update" -> action_update(rad, ad, s, silent, env, st)
      [] verb = "delete" -> action_delete(rad, ad, s, silent, env, st)
      [] OTHER -> Raise("AttributeError", <<"no", "attribute", "action">>,
                        FALSE, st, <<>>)

(* ------------------- registry and error list -------------------------- *)
\* BasePopulator.add_to_registry(action_data, result)
add_to_registry(reg, ad, result) ==
    [k \in DOMAIN reg \cup {ad.register} |->
        IF k = ad.register THEN result ELSE reg[k]]

\* "%s: %s %s" % (self.mode, str(e) if e else '', action_data), followed by
\* the response body when the error carries one
ErrorMessage(mode, text, resp, ad) ==
    [mode |-> mode, text |-> text, data |-> ad,
     response |-> IF resp THEN <<"content">> ELSE <<>>]

\* variant: the list is started afresh with the new record
add_and_log_error_reset(errs, mode, ad, rad, s, text, resp) ==
    <<[search |-> s,
       message |-> ErrorMessage(mode, text, resp, ad),
       rendered_action_data |-> rad,
       action_data |-> ad]>>

\* variant: the error is logged but not appended
add_and_log_error_logonly(errs, mode, ad, rad, s, text, resp) == errs

add_and_log_error(errs, mode, ad, rad, s, text, resp) ==
    Append(errs, [search |-> s,
                  message |-> ErrorMessage(mode, text, resp, ad),
                  rendered_action_data |-> rad,
                  action_data |-> ad])

(* ----------------------- declared actions ----------------------------- *)
\* the registry key of an action is its declared identity
KeyFor(s) == IF s["name"] = "a" THEN "k1" ELSE "k2"

Action(verb, rad, ad, s) == [verb |-> verb, rad |-> rad, ad |-> ad, search |-> s]

\* how an update/delete action names its target: by nothing or by a query
\* (resolved by a search), or by an explicit id (no search)
QueryTargets == {<<None, NoQuery>>, <<None, "q">>}
IdTargets == {<<i, NoQuery>> : i \in Ids}
Targeted == {<<t, s>> : t \in QueryTargets, s \in Searches}
                \cup {<<t, [name |-> "a"]>> : t \in IdTargets}

CreateActions ==
    {Action(v, rad, ActionData(SearchableModel, None, NoQuery, sil, FALSE, KeyFor(s)), s) :
        v \in {"create", "assertion"}, rad \in Rendered, sil \in BOOLEAN, s \in Searches}

UpdateActions ==
    {Action("update", rad,
            ActionData(SearchableModel, ts[1][1], ts[1][2], sil, FALSE, KeyFor(ts[2])),
            ts[2]) :
        rad \in Rendered, ts \in Targeted, sil \in BOOLEAN}

DeleteActions ==
    {Action("delete", ts[2],
            ActionData(SearchableModel, ts[1][1], ts[1][2], sil, FALSE, KeyFor(ts[2])),
            ts[2]) :
        ts \in Targeted, sil \in BOOLEAN}

\* a create action that opts out of validation, a create action on a model
\* that is not searchable or not defined, and an action with an unknown verb
OtherActions ==
    {Action("create", s, ActionData(SearchableModel, None, NoQuery, sil, TRUE, KeyFor(s)), s) :
        sil \in BOOLEAN, s \in Searches}
    \cup {Action("create", s, ActionData(m, None, NoQuery, FALSE, TRUE, KeyFor(s)), s) :
        m \in {PlainModel, UnknownModel}, s \in {[name |-> "a"]}}
    \cup {Action(v, s, ActionData(m, None, NoQuery, sil, FALSE, KeyFor(s)), s) :
        v \in {"create", "update"}, m \in {PlainModel, UnknownModel},
        sil \in BOOLEAN, s \in {[name |-> "a"]}}
    \cup {Action(UnknownVerb, s, ActionData(SearchableModel, None, NoQuery, sil, FALSE, KeyFor(s)), s) :
        sil \in BOOLEAN, s \in {[name |-> "a"]}}

Actions == CreateActions \cup UpdateActions \cup DeleteActions \cup OtherActions

(* ----------------------------- state ---------------------------------- *)
EmptyRegistry == [k \in {} |-> None]

Snapshot ==
    [remote |-> remote, registry |-> registry, created |-> created,
     found |-> found, validation_errors |-> validation_errors]

NoCall == [fn |-> "none", verb |-> "", rad |-> [name |-> "a"],
           ad |-> ActionData("", None, NoQuery, FALSE, FALSE, ""),
           search |-> [name |-> "a"]]

Init ==
    /\ \E n \in 0..MaxInit :
          /\ remote = {[id |-> i, name |-> "a", label |-> NoVal] : i \in 1..n}
          /\ nextId = n + 1
          /\ before = 1..n
    /\ registry = EmptyRegistry
    /\ created = <<>>
    /\ found = <<>>
    /\ validation_errors = <<>>
    /\ ncalls = 0
    /\ call = NoCall
    /\ pre = [remote |-> remote, registry |-> EmptyRegistry, created |-> <<>>,
              found |-> <<>>, validation_errors |-> <<>>]
    /\ netops = <<>>
    /\ thrown = ""
    /\ thrownText = <<>>
    /\ propagated = FALSE
    /\ returned = None

\* bookkeeping common to both methods
Called(fn, a) ==
    /\ ncalls' = ncalls + 1
    /\ call' = [fn |-> fn, verb |-> a.verb, rad |-> a.rad, ad |-> a.ad,
                search |-> a.search]
    /\ pre' = Snapshot
    /\ UNCHANGED before

(* ----------------------------- populate ------------------------------- *)
\* the except clauses: an HTTPError is recorded and dropped, any other
\* exception is recorded and re-raised unless silent_errors is set
\* variant: an HTTPError goes through the same silent_errors gate
Reraises_gated(exc, silent_errors) == ~silent_errors

\* variant: an HTTPError is always re-raised
Reraises_http(exc, silent_errors) ==
    IF exc = "HTTPError" THEN TRUE ELSE ~silent_errors

\* variant: nothing is ever silenced
Reraises_always(exc, silent_errors) == TRUE

Reraises(exc, silent_errors) ==
    IF exc = "HTTPError" THEN FALSE ELSE ~silent_errors

\* variant: the registry is written whether or not the handler raised
RegistryAfter_finally(reg, exc, ad, result) == add_to_registry(reg, ad, result)

\* variant: an absent result is not recorded
RegistryAfter_skipnone(reg, exc, ad, result) ==
    IF exc = "" /\ result # None THEN add_to_registry(reg, ad, result) ELSE reg

\* try ... else: the registry is written only when the handler returned
RegistryAfter(reg, exc, ad, result) ==
    IF exc = "" THEN add_to_registry(reg, ad, result) ELSE reg

populate(a, env) ==
    LET silent_errors == a.ad.silent_errors
        st == State(remote, nextId, created, found)
        h == Dispatch(a.verb, a.rad, a.ad, a.search, silent_errors, env, st)
    IN  /\ ncalls < MaxCalls
        \* an assertion has no handler in APIPopulator; it is only validated
        /\ a.verb # "assertion"
        /\ Called("populate", a)
        /\ IF a.ad.model \notin KnownModels
           THEN \* getattr(entities, ...) fails before the try block
                /\ thrown' = "AttributeError"
                /\ thrownText' = <<"no", "attribute", a.ad.model>>
                /\ propagated' = TRUE
                /\ returned' = None
                /\ netops' = <<>>
                /\ UNCHANGED <<remote, nextId, registry, created, found,
                               validation_errors>>
           ELSE /\ ~h.over
                /\ remote' = h.st.remote
                /\ nextId' = h.st.nextId
                /\ created' = h.st.created
                /\ found' = h.st.found
                /\ netops' = h.netops
                /\ thrown' = h.exc
                /\ thrownText' = h.text
                /\ returned' = h.result
                /\ registry' = RegistryAfter(registry, h.exc, a.ad, h.result)
                /\ IF h.exc # ""
                   THEN \* except HTTPError / except Exception
                        /\ validation_errors' = add_and_log_error(
                               validation_errors, "populate", a.ad, a.rad,
                               a.search, h.text, h.resp)
                        /\ propagated' = Reraises(h.exc, silent_errors)
                   ELSE /\ propagated' = FALSE
                        /\ UNCHANGED validation_errors

(* ----------------------------- validate ------------------------------- *)
NotExistText == <<"entity", "does", "not", "exist", "in", "the", "system">>

\* variant: skip_validation is not consulted
ValidateSkipped_verbonly(verb, ad) == verb \notin {"create", "assertion"}

\* `if action not in ['create', 'assertion'] or
\* action_data.get('skip_validation')`: nothing is validated
ValidateSkipped(verb, ad) ==
    verb \notin {"create", "assertion"} \/ ad.skip_validation

\* variant: the capability check is left out
Searchable_any(model) == TRUE

\* issubclass(model, EntitySearchMixin)
Searchable(model) == model = SearchableModel

\* variant: the HTTPError is re-raised unless silent_errors is set
ValidateReraises_gated(exc, silent_errors) ==
    IF exc = "HTTPError" THEN ~silent_errors ELSE TRUE

\* the try around the search has one clause, `except HTTPError`, which
\* records the error; any other exception leaves validate
ValidateReraises(exc, silent_errors) == exc # "HTTPError"

\* variant: a match is treated as absence
ValidateMatched_never(result) == FALSE

\* `if result:` in validate: the search matched an entity
ValidateMatched(result) == result # None

validate(a, env) ==
    LET st == State(remote, nextId, created, found)
        silent_errors == a.ad.silent_errors
        r == get_search_result(a.ad.model, a.search, silent_errors, env, st)
    IN  /\ ncalls < MaxCalls
        /\ env # "act"
        /\ Called("validate", a)
        /\ UNCHANGED <<remote, nextId, created>>
        /\ IF ValidateSkipped(a.verb, a.ad)
           THEN /\ thrown' = ""
                /\ thrownText' = <<>>
                /\ propagated' = FALSE
                /\ returned' = None
                /\ netops' = <<>>
                /\ UNCHANGED <<registry, found, validation_errors>>
           ELSE IF a.ad.model \notin KnownModels
           THEN /\ thrown' = "AttributeError"
                /\ thrownText' = <<"no", "attribute", a.ad.model>>
                /\ propagated' = TRUE
                /\ returned' = None
                /\ netops' = <<>>
                /\ UNCHANGED <<registry, found, validation_errors>>
           ELSE IF ~Searchable(a.ad.model)
           THEN /\ thrown' = "TypeError"
                /\ thrownText' = <<a.ad.model, "not", "searchable">>
                /\ propagated' = TRUE
                /\ returned' = None
                /\ netops' = <<>>
                /\ UNCHANGED <<registry, found, validation_errors>>
           ELSE /\ netops' = r.netops
                /\ thrown' = r.exc
                /\ thrownText' = r.text
                /\ returned' = r.result
                /\ IF r.exc # ""
                   THEN /\ propagated' = ValidateReraises(r.exc, silent_errors)
                        /\ validation_errors' =
                              IF r.exc = "HTTPError"
                              THEN add_and_log_error(
                                       validation_errors, "validate", a.ad,
                                       a.rad, a.search, r.text, r.resp)
                              ELSE validation_errors
                        /\ UNCHANGED <<registry, found>>
                   ELSE IF ValidateMatched(r.result)
                   THEN /\ found' = Append(found, r.result)
                        /\ registry' = add_to_registry(registry, a.ad, r.result)
                        /\ propagated' = FALSE
                        /\ UNCHANGED validation_errors
                   ELSE /\ registry' = add_to_registry(registry, a.ad, None)
                        /\ validation_errors' = add_and_log_error(
                               validation_errors, "validate", a.ad, a.rad,
                               a.search, NotExistText, FALSE)
                        /\ propagated' = FALSE
                        /\ UNCHANGED found

Next ==
    \/ \E a \in Actions, env \in FailPoints : populate(a, env)
    \/ \E a \in Actions, env \in FailPoints : validate(a, env)

Spec == Init /\ [][Next]_vars

(* ======================= properties of a call ========================= *)
LastError == validation_errors[Len(validation_errors)]

\* the call appended exactly one ErrorRecord, after the ones already there
OneErrorAppended ==
    /\ Len(validation_errors) = Len(pre.validation_errors) + 1
    /\ SubSeq(validation_errors, 1, Len(pre.validation_errors))
          = pre.validation_errors

\* the last ErrorRecord is the one of the call's action
ErrorIsForCall ==
    /\ LastError.action_data = call.ad
    /\ LastError.rendered_action_data = call.rad
    /\ LastError.search = call.search

NoRegistryWrite == registry = pre.registry

\* the registry after the call is the one before it with `value` at the key
RegistryWritten(value) ==
    /\ call.ad.register \in DOMAIN registry
    /\ registry[call.ad.register] = value
    /\ DOMAIN registry = DOMAIN pre.registry \cup {call.ad.register}
    /\ \A k \in DOMAIN pre.registry :
          k # call.ad.register => registry[k] = pre.registry[k]

\* populate(..., "create") whose handler raised an HTTP error
CreateTransportFailure ==
    /\ call.fn = "populate"
    /\ call.verb = "create"
    /\ thrown = "HTTPError"

MissingTargetCall ==
    /\ call.fn = "populate"
    /\ call.verb \in {"update", "delete"}
    /\ call.ad.model \in KnownModels
    /\ call.ad.id = None
    /\ call.ad.search_query = NoQuery

Processed == call.fn \in {"populate", "validate"}

\* C3 (as stated): every processed action, succeeding or failing, leaves a
\* registry entry for its key.
C3_Original == Processed => call.ad.register \in DOMAIN registry

\* the calls that write the registry: a populate whose handler returned, and
\* a validate that ran its search to an answer (a match or no match)
WritesRegistry ==
    \/ call.fn = "populate" /\ thrown = "" /\ ~propagated
    \/ /\ call.fn = "validate"
       /\ thrown = ""
       /\ netops # <<>>

\* C3 (amended): an action leaves a registry entry for its key (a handle or
\* the not-found marker) when populate's handler returns without raising,
\* or when validate's search runs to an answer; every other call (a failed
\* handler, silenced or not, a transport failure, a validate that is skipped
\* or raises) leaves the registry as it was.
C3_Amended ==
    Processed =>
        IF WritesRegistry
        THEN /\ call.ad.register \in DOMAIN registry
             /\ registry[call.ad.register] \in {None} \cup RemoteIds(remote)
                                                   \cup RemoteIds(pre.remote)
             /\ RegistryWritten(registry[call.ad.register])
        ELSE NoRegistryWrite

C3_Witness ==
    /\ call.fn = "populate"
    /\ thrown = "RuntimeError"
    /\ call.ad.silent_errors
    /\ ~propagated
    /\ call.ad.register \notin DOMAIN registry

\* C4: create is idempotent.  A first populate(create) that found no match
\* and created an entity its own search matches, followed by the same
\* action again (no transport failure): created keeps that one entry, the
\* second run appends one entry to found and none to created, both runs
\* return the same id, and the remote system holds one matching entity.
FirstCreateRun ==
    /\ call.fn = "populate"
    /\ call.verb = "create"
    /\ thrown = ""
    /\ SearchRemote(pre.remote, call.search) = {}
    /\ created = Append(pre.created, returned)
    /\ returned \in RemoteIds(SearchRemote(remote, call.search))

SecondCreateRun ==
    /\ call' = call
    /\ thrown' = ""

C4_Step ==
    (FirstCreateRun /\ SecondCreateRun)
        => /\ created' = created
           /\ created' = Append(pre.created, returned)
           /\ found' = Append(found, returned)
           /\ returned' = returned
           /\ Cardinality(SearchRemote(remote', call.search)) = 1

C4_Idempotent == [][C4_Step]_vars

C4_Witness ==
    /\ call.fn = "populate"
    /\ call.verb = "create"
    /\ ncalls = 2
    /\ thrown = ""
    /\ created = pre.created
    /\ Len(created) = 1
    /\ found = <<created[1]>>
    /\ pre.found = <<>>
    /\ returned = created[1]
    /\ returned = nextId - 1
    /\ Cardinality(SearchRemote(remote, call.search)) = 1

NoNetworkCall == netops = <<>>

\* C5: an update or delete action with neither id nor search_query raises
\* the configuration error before any network operation: no remote call is
\* issued by that action.
C5_ConfigErrorFirst ==
    MissingTargetCall
        => /\ thrown = "RuntimeError"
           /\ NoNetworkCall
           /\ remote = pre.remote
           /\ LastError.message.text[2] = "missing"

C5_Witness ==
    /\ MissingTargetCall
    /\ call.verb = "delete"
    /\ thrown = "RuntimeError"
    /\ NoNetworkCall
    /\ pre.remote # {}

\* C6: with silent_errors true a transport failure during populate(create)
\* writes no registry entry, appends exactly one ErrorRecord, leaves created
\* and found unchanged, and populate returns normally.
C6_SilentTransport ==
    (CreateTransportFailure /\ call.ad.silent_errors)
        => /\ NoRegistryWrite
           /\ OneErrorAppended
           /\ ErrorIsForCall
           /\ created = pre.created
           /\ found = pre.found
           /\ ~propagated

\* the create call itself failed, after a search that found nothing
C6_Witness ==
    /\ CreateTransportFailure
    /\ call.ad.silent_errors
    /\ ~propagated
    /\ netops = <<Op("search", None, TRUE), Op("create", None, FALSE)>>
    /\ call.ad.register \notin DOMAIN registry

\* toks occurs in text as a run of consecutive words
Contains(text, toks) ==
    \E i \in 1..(Len(text) - Len(toks) + 1) :
        SubSeq(text, i, i + Len(toks) - 1) = toks

\* validate of a create/assertion action, not skipped, searchable model,
\* whose search ran and matched nothing
ValidateNoMatch ==
    /\ call.fn = "validate"
    /\ call.verb \in {"create", "assertion"}
    /\ ~call.ad.skip_validation
    /\ call.ad.model = SearchableModel
    /\ netops = <<Op("search", None, TRUE)>>
    /\ SearchRemote(pre.remote, call.search) = {}

\* C7: validate whose unique search returns no match writes the absence
\* marker to the registry, appends exactly one ErrorRecord whose message
\* contains "does not exist", leaves found unchanged and does not raise.
C7_ValidateAbsent ==
    ValidateNoMatch
        => /\ RegistryWritten(None)
           /\ OneErrorAppended
           /\ ErrorIsForCall
           /\ Contains(LastError.message.text, <<"does", "not", "exist">>)
           /\ found = pre.found
           /\ ~propagated

C7_Witness ==
    /\ ValidateNoMatch
    /\ call.verb = "create"
    /\ registry[call.ad.register] = None
    /\ LastError.message.mode = "validate"
    /\ pre.remote # {}

\* populate of a create/update/delete action whose search ran and matched
\* two or more entities
AmbiguousSearch ==
    /\ call.fn = "populate"
    /\ call.verb \in {"create", "update", "delete"}
    /\ netops # <<>>
    /\ netops[1] = Op("search", None, TRUE)
    /\ Cardinality(SearchRemote(pre.remote, call.search)) >= 2

\* C8: when the unique search of a create, update or delete action matches
\* two or more entities the action fails: no entity is picked, no
\* create/update/delete is issued, nothing is appended to created or found.
C8_Ambiguous ==
    AmbiguousSearch
        => /\ thrown = "RuntimeError"
           /\ returned = None
           /\ Len(netops) = 1
           /\ remote = pre.remote
           /\ created = pre.created
           /\ found = pre.found
           /\ NoRegistryWrite
           /\ OneErrorAppended

C8_Witness ==
    /\ AmbiguousSearch
    /\ call.verb = "update"
    /\ thrown = "RuntimeError"
    /\ LastError.message.text = <<"search", "is", "not", "unique">>

\* populate of an update action that names its target by id
ExplicitIdUpdate ==
    /\ call.fn = "populate"
    /\ call.verb = "update"
    /\ call.ad.model = SearchableModel
    /\ call.ad.id # None

\* u is e with exactly the fields of rad overwritten
PartialUpdateOf(u, e, rad) ==
    /\ u.id = e.id
    /\ \A f \in Fields :
          FieldOf(u, f) = IF f \in DOMAIN rad THEN rad[f] ELSE FieldOf(e, f)

\* C9: action_update with an explicit id performs no search, issues one
\* update on the entity with that id that overwrites exactly the keys of
\* the rendered data (other fields and other entities unchanged), and
\* returns a handle with that id.
C9_UpdateById ==
    ExplicitIdUpdate
        => /\ \A i \in 1..Len(netops) : netops[i].op # "search"
           /\ netops = <<Op("update", call.ad.id, thrown = "")>>
           /\ thrown = ""
                => /\ returned = call.ad.id
                   /\ \E e \in pre.remote, u \in remote :
                         /\ e.id = call.ad.id
                         /\ PartialUpdateOf(u, e, call.rad)
                         /\ remote \ {u} = pre.remote \ {e}
           /\ thrown # "" => remote = pre.remote

C9_Witness ==
    /\ ExplicitIdUpdate
    /\ thrown = ""
    /\ DOMAIN call.rad = {"name"}
    /\ \E e \in pre.remote, u \in remote :
          /\ e.id = call.ad.id
          /\ u.id = call.ad.id
          /\ e.label = "x"
          /\ u.label = "x"
          /\ e.name # u.name

\* populate of a create action on a searchable model
CreateCall ==
    /\ call.fn = "populate"
    /\ call.verb = "create"
    /\ call.ad.model = SearchableModel

\* C10: create is create-if-absent.  The search comes first; a create call
\* is issued only after a search that returned absence; when the search
\* matches, the existing entity is returned and appended to found, nothing
\* is created, updated or deleted and created is unchanged, whatever the
\* rendered fields are.
C10_CreateIfAbsent ==
    CreateCall
        => /\ netops # <<>>
           /\ netops[1].op = "search"
           /\ \A i \in 1..Len(netops) :
                 /\ netops[i].op \notin {"update", "delete"}
                 /\ netops[i].op = "create"
                       => /\ i = 2
                          /\ netops[1] = Op("search", None, TRUE)
                          /\ SearchRemote(pre.remote, call.search) = {}
           /\ (thrown = "" /\ SearchRemote(pre.remote, call.search) # {})
                 => /\ returned \in RemoteIds(SearchRemote(pre.remote, call.search))
                    /\ found = Append(pre.found, returned)
                    /\ created = pre.created
                    /\ remote = pre.remote
                    /\ netops = <<Op("search", None, TRUE)>>

\* the match is returned although the rendered fields differ from it
C10_Witness ==
    /\ CreateCall
    /\ thrown = ""
    /\ netops = <<Op("search", None, TRUE)>>
    /\ returned # None
    /\ found = Append(pre.found, returned)
    /\ EntityById(remote, returned) # NewEntity(returned, call.rad)

\* populate of a delete action on a searchable model
DeleteAction ==
    /\ call.fn = "populate"
    /\ call.verb = "delete"
    /\ call.ad.model = SearchableModel

\* the network operations of the last call of a given kind
OpsOf(kind) == {i \in 1..Len(netops) : netops[i].op = kind}

\* the id a delete/update action resolves to: the explicit id, else the id
\* of the only entity its search matched
ResolvedIds ==
    IF call.ad.id # None THEN {call.ad.id}
    ELSE IF Cardinality(SearchRemote(pre.remote, call.search)) = 1
    THEN RemoteIds(SearchRemote(pre.remote, call.search))
    ELSE {}

\* C11: a delete action issues at most one delete call, on the resolved id
\* (the explicit id or the id of the unique match); after a successful
\* delete the remote entities are the previous ones minus that entity, and
\* a delete action never removes more than one entity.
C11_DeleteOne ==
    DeleteAction
        => /\ Cardinality(OpsOf("delete")) <= 1
           /\ \A i \in OpsOf("delete") : netops[i].id \in ResolvedIds
           /\ \A i \in 1..Len(netops) : netops[i].op \notin {"create", "update"}
           /\ remote \subseteq pre.remote
           /\ Cardinality(pre.remote \ remote) <= 1
           /\ thrown = ""
                => /\ OpsOf("delete") # {}
                   /\ \E e \in pre.remote :
                         /\ e.id \in ResolvedIds
                         /\ remote = pre.remote \ {e}
           /\ thrown # "" => remote = pre.remote

\* one of two entities matching by name was deleted through its id
C11_Witness ==
    /\ DeleteAction
    /\ thrown = ""
    /\ Cardinality(pre.remote) = 2
    /\ Cardinality(SearchRemote(pre.remote, call.search)) = 2
    /\ Cardinality(remote) = 1
    /\ call.ad.id \notin RemoteIds(remote)

\* validate whose search failed with an HTTP error
ValidateTransportFailure ==
    /\ call.fn = "validate"
    /\ thrown = "HTTPError"

\* C12: a transport failure during the search of validate is recorded as
\* exactly one ErrorRecord and never re-raised, whatever silent_errors is;
\* the registry and found are left as they were.
C12_ValidateTransport ==
    ValidateTransportFailure
        => /\ ~propagated
           /\ OneErrorAppended
           /\ ErrorIsForCall
           /\ NoRegistryWrite
           /\ found = pre.found
           /\ netops = <<Op("search", None, FALSE)>>

C12_Witness ==
    /\ ValidateTransportFailure
    /\ ~call.ad.silent_errors
    /\ ~propagated
    /\ LastError.message.mode = "validate"
    /\ LastError.message.response # <<>>

\* C13 (as stated): whenever populate or validate propagates an exception,
\* an ErrorRecord for the triggering error of that action has already been
\* appended, whatever the cause (unknown model, unknown verb, model that is
\* not searchable in validate).
C13_Original == propagated => (OneErrorAppended /\ ErrorIsForCall)

\* the exception came out of populate's try block: the model name resolved
InsidePopulateTry ==
    /\ call.fn = "populate"
    /\ call.ad.model \in KnownModels

\* C13 (amended): when populate propagates an exception raised inside its
\* try block (by the verb handler, or by the lookup of a handler for an
\* unknown verb), an ErrorRecord for that error has already been appended.
\* An exception raised anywhere else propagates with no ErrorRecord: an
\* unknown model name in populate or validate, a model that is not
\* searchable in validate, a search error other than HTTPError in validate.
C13_Amended ==
    propagated =>
        IF InsidePopulateTry
        THEN /\ OneErrorAppended
             /\ ErrorIsForCall
             /\ LastError.message.text = thrownText
        ELSE validation_errors = pre.validation_errors

C13_Witness ==
    /\ propagated
    /\ call.fn = "populate"
    /\ call.verb = UnknownVerb
    /\ thrown = "AttributeError"
    /\ Len(validation_errors) = Len(pre.validation_errors) + 1

\* validate of an action that is not validated: its verb is neither create
\* nor assertion, or it sets skip_validation
NotValidated ==
    /\ call.fn = "validate"
    /\ \/ call.verb \notin {"create", "assertion"}
       \/ call.ad.skip_validation

\* C14: validate is a no-op when the verb is not create or assertion, or
\* skip_validation is set: no search, registry, created, found and
\* validation_errors unchanged, no exception, whatever the model is.
C14_ValidateNoop ==
    NotValidated
        => /\ NoNetworkCall
           /\ NoRegistryWrite
           /\ created = pre.created
           /\ found = pre.found
           /\ validation_errors = pre.validation_errors
           /\ remote = pre.remote
           /\ thrown = ""
           /\ ~propagated

\* skipped although the model name is not defined
C14_Witness ==
    /\ NotValidated
    /\ call.verb = "create"
    /\ call.ad.skip_validation
    /\ call.ad.model = UnknownModel
    /\ ~propagated

\* populate of an update/delete action named by a query only, whose search
\* ran and matched nothing
TargetNotFound ==
    /\ call.fn = "populate"
    /\ call.verb \in {"update", "delete"}
    /\ call.ad.id = None
    /\ call.ad.search_query # NoQuery
    /\ netops # <<>>
    /\ netops[1] = Op("search", None, TRUE)
    /\ SearchRemote(pre.remote, call.search) = {}

\* the handler failed with "Cannot find entity" and touched nothing
CannotFindFailure ==
    /\ thrown = "RuntimeError"
    /\ Contains(thrownText, <<"Cannot", "find", "entity">>)
    /\ netops = <<Op("search", None, TRUE)>>
    /\ remote = pre.remote
    /\ OneErrorAppended
    /\ ErrorIsForCall
    /\ NoRegistryWrite

\* C15 (as stated): an update/delete action with a query and no id whose
\* search returns absence fails with "cannot find entity", issues no update
\* or delete, and the failure is propagated by populate.
C15_Original == TargetNotFound => (CannotFindFailure /\ propagated)

\* C15 (amended): such an action fails with "Cannot find entity" and issues
\* no update or delete; populate propagates the failure when silent_errors
\* is false, and records it and returns normally when silent_errors is true.
C15_Amended ==
    TargetNotFound
        => /\ CannotFindFailure
           /\ propagated = ~call.ad.silent_errors

C15_Witness ==
    /\ TargetNotFound
    /\ call.verb = "delete"
    /\ call.ad.silent_errors
    /\ ~propagated
    /\ pre.remote # {}
    /\ remote = pre.remote

\* validate of a create/assertion action, not skipped, on a model that
\* nailgun defines without EntitySearchMixin
ValidateNotSearchable ==
    /\ call.fn = "validate"
    /\ call.verb \in {"create", "assertion"}
    /\ ~call.ad.skip_validation
    /\ call.ad.model = PlainModel

\* C16: validate of a create/assertion action on a model that does not
\* support search raises a TypeError naming the model, for every value of
\* silent_errors, before any search and without writing the registry or
\* found.
C16_NotSearchable ==
    ValidateNotSearchable
        => /\ thrown = "TypeError"
           /\ thrownText = <<call.ad.model, "not", "searchable">>
           /\ propagated
           /\ NoNetworkCall
           /\ NoRegistryWrite
           /\ found = pre.found

C16_Witness ==
    /\ ValidateNotSearchable
    /\ call.ad.silent_errors
    /\ propagated
    /\ thrown = "TypeError"
    /\ thrownText[1] = PlainModel

\* p is q with at most one record appended
GrowsByAtMostOne(p, q) ==
    /\ Len(p) <= Len(q)
    /\ Len(q) <= Len(p) + 1
    /\ SubSeq(q, 1, Len(p)) = p

\* the step is a populate call whose verb handler, or the lookup of the
\* handler by its verb inside the try block, raised
HandlerFailedStep ==
    /\ call'.fn = "populate"
    /\ ncalls' = ncalls + 1
    /\ call'.ad.model \in KnownModels
    /\ thrown' # ""

C17_Step ==
    /\ GrowsByAtMostOne(validation_errors, validation_errors')
    /\ HandlerFailedStep
          => /\ Len(validation_errors') = Len(validation_errors) + 1
             /\ validation_errors'[Len(validation_errors')].action_data
                    = call'.ad
             /\ validation_errors'[Len(validation_errors')].message.text
                    = thrownText'

\* C17: validation_errors is append-only (records are never removed,
\* reordered or modified, a call adds at most one) and every populate call
\* whose handler fails, by an HTTP error or any other exception, appends
\* exactly one ErrorRecord.
C17_AppendOnly == [][C17_Step]_vars

\* a second failure recorded behind the first, an HTTP error and another
C17_Witness ==
    /\ call.fn = "populate"
    /\ thrown = "HTTPError"
    /\ Len(validation_errors) = 2
    /\ validation_errors[1] = pre.validation_errors[1]
    /\ validation_errors[1].message.text # HTTPText

Range(q) == {q[i] : i \in 1..Len(q)}

\* C18 (as stated): every entity in found existed before the run and every
\* entity in created was made by the run, so no entity created during the
\* run appears in found.
C18_Original ==
    /\ Range(found) \subseteq before
    /\ Range(created) \cap before = {}

\* C18 (amended): every entity in created was made by the run (it did not
\* exist before, and is listed once); every entity in found was matched by
\* a search of the run, so it either existed before the run or was created
\* earlier in the run, and then it is in both lists.
C18_Amended ==
    /\ Range(created) \cap before = {}
    /\ \A i, j \in 1..Len(created) : created[i] = created[j] => i = j
    /\ Range(found) \subseteq before \cup Range(created)
    /\ found # pre.found
          => /\ found = Append(pre.found, returned)
             /\ returned \in RemoteIds(SearchRemote(pre.remote, call.search))

\* populate(create) made the entity, validate of the same action found it
C18_Witness ==
    /\ call.fn = "validate"
    /\ call.verb = "create"
    /\ Len(created) = 1
    /\ found = <<created[1]>>
    /\ created[1] \notin before
    /\ registry[call.ad.register] = created[1]
    /\ pre.registry[call.ad.register] = created[1]

\* populate reached its try block (the model is defined)
PopulateRan ==
    /\ call.fn = "populate"
    /\ call.ad.model \in KnownModels

\* C19: populate writes the registry exactly when its verb handler returned
\* without raising: then the action's key holds the handler's result (the
\* handle of an entity of the remote system for create and update, None for
\* delete), no other key changes and no ErrorRecord is appended; when the
\* handler raised, the registry is left as it was.
C19_RegistryIffReturned ==
    PopulateRan
        => IF thrown = ""
           THEN /\ RegistryWritten(returned)
                /\ validation_errors = pre.validation_errors
                /\ ~propagated
                /\ call.verb = "delete" => returned = None
                /\ call.verb \in {"create", "update"}
                      => /\ returned # None
                         /\ returned \in RemoteIds(remote)
           ELSE NoRegistryWrite

\* a successful delete recorded absence over the handle a create had left
C19_Witness ==
    /\ PopulateRan
    /\ call.verb = "delete"
    /\ thrown = ""
    /\ OpsOf("delete") # {}
    /\ call.ad.register \in DOMAIN pre.registry
    /\ pre.registry[call.ad.register] # None
    /\ registry[call.ad.register] = None

\* validate ran its search, which matched exactly one entity
ValidateMatch ==
    /\ call.fn = "validate"
    /\ call.verb \in {"create", "assertion"}
    /\ ~call.ad.skip_validation
    /\ call.ad.model = SearchableModel
    /\ thrown = ""
    /\ Cardinality(SearchRemote(pre.remote, call.search)) = 1

\* C20: validate of a create or assertion action on a searchable model,
\* skip_validation unset, whose search matches one entity appends that
\* entity's handle once to found, writes the same handle to the registry at
\* the action's key, appends no ErrorRecord, issues only the search on the
\* remote system and leaves created unchanged.
C20_ValidateMatch ==
    ValidateMatch
        => /\ {returned} = RemoteIds(SearchRemote(pre.remote, call.search))
           /\ found = Append(pre.found, returned)
           /\ RegistryWritten(returned)
           /\ validation_errors = pre.validation_errors
           /\ netops = <<Op("search", None, TRUE)>>
           /\ remote = pre.remote
           /\ created = pre.created
           /\ ~propagated

\* an assertion matched an entity that existed before the run
C20_Witness ==
    /\ ValidateMatch
    /\ call.verb = "assertion"
    /\ returned \in before
    /\ found = <<returned>>
    /\ created = <<>>
    /\ call.ad.register \notin DOMAIN pre.registry
    /\ registry[call.ad.register] = returned

====
